---- MODULE Spec2Model ----
(***************************************************************************)
(* Model of the SQS-driven thumbnail generator                             *)
(* (lambda-function/lambda_function.py).                                   *)
(*                                                                         *)
(* Strings are sequences of one-character strings, so that startswith,     *)
(* replace and unquote_plus work on characters as Python's do.  Byte       *)
(* strings (image data, thumbnail data) are modelled by their length: the  *)
(* handler reads nothing else of them.  Wall-clock timings are left out:   *)
(* they are only copied into logs, metrics and the result.                 *)
(***************************************************************************)
EXTENDS Integers, Sequences, FiniteSets, TLC

VARIABLES
    frames,   \* invocation id -> the locals of that lambda_handler activation
    calls,    \* every call made on the shared s3_client / cloudwatch clients
              \* and on resize_image, in the order issued
    sink,     \* how the latest cloudwatch.put_metric_data call ended
    kt,       \* the key under test of the key-handling specification
    image     \* the PIL image of the image-size specification

vars == <<frames, calls, sink, kt, image>>

-----------------------------------------------------------------------------
(* Bounds *)

\* most SQS records in one event
MaxMsgs == 2
\* most S3 records in one SQS message body
MaxRecs == 2
\* most S3 records in one event, over all its bodies
MaxItems == 3
\* most fragments concatenated into a raw key of the key-handling specification
MaxFrags == 3

-----------------------------------------------------------------------------
(* Characters and strings *)

\* the printable ASCII characters, code points 32..126 in order (the grave
\* accent, 96, is spelled out)
Ascii ==
    << " ", "!", "\"", "#", "$", "%", "&", "'", "(", ")", "*", "+", ",", "-",
       ".", "/", "0", "1", "2", "3", "4", "5", "6", "7", "8", "9", ":", ";",
       "<", "=", ">", "?", "@", "A", "B", "C", "D", "E", "F", "G", "H", "I",
       "J", "K", "L", "M", "N", "O", "P", "Q", "R", "S", "T", "U", "V", "W",
       "X", "Y", "Z", "[", "\\", "]", "^", "_", "U+0060", "a", "b", "c", "d", "e",
       "f", "g", "h", "i", "j", "k", "l", "m", "n", "o", "p", "q", "r", "s",
       "t", "u", "v", "w", "x", "y", "z", "{", "|", "}", "~" >>

\* bytes.decode('utf-8', errors='replace') of one byte below 128; a byte from
\* 128 up is not valid UTF-8 on its own and decodes to U+FFFD.  (Multi-byte
\* sequences are outside the inputs drawn here.)
Chr(n) ==
    IF n >= 32 /\ n <= 126 THEN Ascii[n - 31]
    ELSE IF n >= 128 THEN "U+FFFD"
    ELSE "U+00" \o ToString(n)

HexDigits ==
    { "0", "1", "2", "3", "4", "5", "6", "7", "8", "9",
      "a", "b", "c", "d", "e", "f", "A", "B", "C", "D", "E", "F" }

\* urllib.parse._hextobyte: the value of one hexadecimal digit
HexVal(c) ==
    CASE c = "0" -> 0  [] c = "1" -> 1  [] c = "2" -> 2  [] c = "3" -> 3
      [] c = "4" -> 4  [] c = "5" -> 5  [] c = "6" -> 6  [] c = "7" -> 7
      [] c = "8" -> 8  [] c = "9" -> 9
      [] c \in {"a", "A"} -> 10  [] c \in {"b", "B"} -> 11
      [] c \in {"c", "C"} -> 12  [] c \in {"d", "D"} -> 13
      [] c \in {"e", "E"} -> 14  [] c \in {"f", "F"} -> 15

\* str.startswith
startswith(s, p) ==
    /\ Len(p) <= Len(s)
    /\ SubSeq(s, 1, Len(p)) = p

\* str.replace(old, new): every non-overlapping occurrence, left to right
RECURSIVE replace(_, _, _)
replace(s, old, new) ==
    IF s = <<>> THEN <<>>
    ELSE IF startswith(s, old)
         THEN new \o replace(SubSeq(s, Len(old) + 1, Len(s)), old, new)
         ELSE <<Head(s)>> \o replace(Tail(s), old, new)

\* urllib.parse.unquote: "%XY" with two hexadecimal digits becomes the
\* character of that byte; any other "%" is kept as it is
RECURSIVE unquote(_)
unquote(s) ==
    IF s = <<>> THEN <<>>
    ELSE IF /\ Head(s) = "%"
            /\ Len(s) >= 3
            /\ s[2] \in HexDigits
            /\ s[3] \in HexDigits
         THEN <<Chr(16 * HexVal(s[2]) + HexVal(s[3]))>>
                  \o unquote(SubSeq(s, 4, Len(s)))
         ELSE <<Head(s)>> \o unquote(Tail(s))

\* urllib.parse.unquote_plus: "+" becomes a space, then unquote
unquote_plus(s) == unquote(replace(s, <<"+">>, <<" ">>))

\* the literal 'images/'
ImagesPrefix == <<"i", "m", "a", "g", "e", "s", "/">>
\* the literal 'thumbnails/'
ThumbnailsPrefix == <<"t", "h", "u", "m", "b", "n", "a", "i", "l", "s", "/">>

\* the skip tests made with "'images/' in source_key" for startswith
Route_contains(source_key) ==
    IF \A n \in 1..(Len(source_key) - 6) :
           SubSeq(source_key, n, n + 6) # ImagesPrefix
    THEN "skip-wrong-prefix"
    ELSE IF startswith(source_key, ThumbnailsPrefix) THEN "skip-is-thumbnail"
    ELSE "eligible"

\* the two skip tests made in the other order: thumbnails/ first
Route_thumbnail_first(source_key) ==
    IF startswith(source_key, ThumbnailsPrefix) THEN "skip-is-thumbnail"
    ELSE IF ~startswith(source_key, ImagesPrefix) THEN "skip-wrong-prefix"
    ELSE "eligible"

\* the two skip tests of the S3-record loop, in the order the code makes them
Route(source_key) ==
    IF ~startswith(source_key, ImagesPrefix) THEN "skip-wrong-prefix"
    ELSE IF startswith(source_key, ThumbnailsPrefix) THEN "skip-is-thumbnail"
    ELSE "eligible"

\* the replace with its two arguments the wrong way round
ThumbnailKey_swapped(source_key) ==
    replace(source_key, ThumbnailsPrefix, ImagesPrefix)

\* thumbnail_key = source_key.replace('images/', 'thumbnails/')
ThumbnailKey(source_key) == replace(source_key, ImagesPrefix, ThumbnailsPrefix)

-----------------------------------------------------------------------------
(* The event delivered to lambda_handler *)

\* a dict with no keys
EmptyDict == [x \in {} |-> x]

\* the bucket named in the S3 records
Buckets == { <<"b">> }

\* the object keys, percent-encoded as S3 notifications carry them:
\* "images%2Ftest.jpg", "thumbnails/x.jpg", "other/x.png"
HandlerRawKeys ==
    { <<"i", "m", "a", "g", "e", "s", "%", "2", "F",
        "t", "e", "s", "t", ".", "j", "p", "g">>,
      ThumbnailsPrefix \o <<"x", ".", "j", "p", "g">>,
      <<"o", "t", "h", "e", "r", "/", "x", ".", "p", "n", "g">> }

\* an S3 record with every field the handler reads
S3Record(b, k) == [s3 |-> [bucket |-> [name |-> b], object |-> [key |-> k]]]

\* S3 records that lack a field the handler reads: no s3.bucket.name, no
\* s3.object.key
MalformedS3Records ==
    { [s3 |-> [bucket |-> EmptyDict, object |-> [key |-> k]]] :
              k \in { ThumbnailsPrefix } }
    \cup { [s3 |-> [bucket |-> [name |-> b], object |-> EmptyDict]] :
              b \in Buckets }

S3Records ==
    { S3Record(b, k) : b \in Buckets, k \in HandlerRawKeys }
    \cup MalformedS3Records

\* an SQS message body is a string; it is modelled by whether json.loads
\* accepts it and, when it does, by the value json.loads returns.  The
\* shape of an SQS record: no 'body'; a body that is no JSON; a body with no
\* 'Records'; a body with n S3 records.
SqsShapes ==
    { [kind |-> k, n |-> 0] : k \in { "no-body", "bad-json", "no-records" } }
    \cup { [kind |-> "records", n |-> c] : c \in 0..MaxRecs }

RECURSIVE ShapeItems(_)
\* the S3 records an event of these shapes holds in all
ShapeItems(shapes) ==
    IF shapes = <<>> THEN 0 ELSE Head(shapes).n + ShapeItems(Tail(shapes))

\* the shapes of the events: at most MaxMsgs SQS records holding at most
\* MaxItems S3 records
EventShapes ==
    { shapes \in UNION { [1..m -> SqsShapes] : m \in 0..MaxMsgs } :
          ShapeItems(shapes) <= MaxItems }

\* the SQS record of one shape over its S3 records
SqsRecordOf(shape, records) ==
    CASE shape.kind = "no-body" -> EmptyDict
      [] shape.kind = "bad-json" -> [body |-> [json |-> FALSE]]
      [] shape.kind = "no-records" -> [body |-> [json |-> TRUE, value |-> EmptyDict]]
      [] shape.kind = "records" ->
             [body |-> [json |-> TRUE, value |-> [Records |-> records]]]

\* the event of the given shapes whose S3 records are, in order, "items"
EventOf(shapes, items) ==
    [Records |->
        [j \in 1..Len(shapes) |->
            LET before == ShapeItems(SubSeq(shapes, 1, j - 1)) IN
            SqsRecordOf(shapes[j],
                        SubSeq(items, before + 1, before + shapes[j].n))]]

-----------------------------------------------------------------------------
(* lambda_handler *)

\* len(image_data) of a downloaded object, and len(thumbnail_data) of an
\* encoded thumbnail: the handler distinguishes only zero from non-zero
ImageLens == { 0, 2 }
ThumbnailLens == { 0, 1 }

\* a ratio a / b is kept as the pair <<a, b>>
Ratio(a, b) == <<a, b>>

NoMetrics ==
    [compression_ratio |-> Ratio(0, 1), original_size_bytes |-> 0,
     thumbnail_size_bytes |-> 0]

\* the locals of lambda_handler on entry, with processed_files, total_files,
\* successful_files and failed_files as the handler first sets them.  "log"
\* is what the handler has printed about the outcome of each S3 record.
InitFrame(e) ==
    [pc |-> "start", event |-> e, sqs_idx |-> 1, s3_event |-> EmptyDict,
     s3_idx |-> 1, processed_files |-> <<>>, total_files |-> 0,
     successful_files |-> 0, failed_files |-> 0, bucket_name |-> <<>>,
     source_key |-> <<>>, image_data |-> 0, thumbnail_data |-> 0,
     resize_metrics |-> NoMetrics, thumbnail_key |-> <<>>, error |-> "",
     result |-> EmptyDict, log |-> <<>>]

\* the locals of one S3 record's iteration, cleared when the iteration ends
\* (the code rebinds each before it reads it again)
ClearItem(f) ==
    [f EXCEPT !.bucket_name = <<>>, !.source_key = <<>>, !.image_data = 0,
              !.thumbnail_data = 0, !.resize_metrics = NoMetrics,
              !.thumbnail_key = <<>>, !.error = ""]

\* one call on s3_client or resize_image, as issued for the S3 record being
\* handled, and the exception it raised ("" when it returned)
Call(i, f, op, key, ratio, raised) ==
    [inv |-> i, item |-> f.total_files, op |-> op, key |-> key,
     metric |-> "", ratio |-> ratio, raised |-> raised]

\* one cloudwatch.put_metric_data call, for S3 record "item" (0: for the
\* invocation as a whole); how it ended is kept in "sink" alone
MetricCall(i, item, metric, ratio) ==
    [inv |-> i, item |-> item, op |-> "put_metric_data",
     key |-> <<>>, metric |-> metric, ratio |-> ratio]

SinkResult(ok) == IF ok THEN "ok" ELSE "failed"

\* s3_record['s3']['bucket']['name'] raises no KeyError
HasBucketName(r) ==
    /\ "s3" \in DOMAIN r
    /\ "bucket" \in DOMAIN r.s3
    /\ "name" \in DOMAIN r.s3.bucket

\* s3_record['s3']['object']['key'] raises no KeyError
HasObjectKey(r) ==
    /\ "s3" \in DOMAIN r
    /\ "object" \in DOMAIN r.s3
    /\ "key" \in DOMAIN r.s3.object

\* entry of the handler up to the first loop: event['Records'] is read
Start(i) ==
    /\ frames[i].pc = "start"
    /\ frames' = [frames EXCEPT ![i] =
           IF "Records" \in DOMAIN @.event
           THEN [@ EXCEPT !.pc = "sqs_loop"]
           ELSE [@ EXCEPT !.pc = "fatal", !.error = "KeyError"]]
    /\ UNCHANGED <<calls, sink, kt, image>>

\* for sqs_record in event['Records']: the next SQS record's body is parsed
\* and its S3 records are about to be walked
SqsRecord(i) ==
    LET f == frames[i] IN
    /\ f.pc = "sqs_loop"
    /\ f.sqs_idx <= Len(f.event.Records)
    /\ LET sqs_record == f.event.Records[f.sqs_idx] IN
       frames' = [frames EXCEPT ![i] =
           IF "body" \notin DOMAIN sqs_record
           THEN [f EXCEPT !.pc = "fatal", !.error = "KeyError"]
           ELSE IF ~sqs_record.body.json
           THEN [f EXCEPT !.pc = "fatal", !.error = "JSONDecodeError"]
           ELSE IF "Records" \notin DOMAIN sqs_record.body.value
           THEN [f EXCEPT !.pc = "fatal", !.error = "KeyError"]
           ELSE [f EXCEPT !.pc = "s3_loop", !.s3_idx = 1,
                          !.s3_event = sqs_record.body.value]]
    /\ UNCHANGED <<calls, sink, kt, image>>

\* the S3 records of one body are exhausted: on to the next SQS record
S3LoopEnd(i) ==
    LET f == frames[i] IN
    /\ f.pc = "s3_loop"
    /\ f.s3_idx > Len(f.s3_event.Records)
    /\ frames' = [frames EXCEPT ![i] =
           [f EXCEPT !.pc = "sqs_loop", !.sqs_idx = @ + 1,
                     !.s3_event = EmptyDict, !.s3_idx = 1]]
    /\ UNCHANGED <<calls, sink, kt, image>>

\* a skip that counts the file as failed
SkipRecord_counted(f, source_key, route) ==
    [f EXCEPT !.s3_idx = @ + 1, !.failed_files = @ + 1,
              !.log = Append(@, [item |-> f.total_files,
                                 source_key |-> source_key,
                                 outcome |-> "Skipped", detail |-> route])]

\* "continue" at a skip test: the skip is reported, nothing else changes
SkipRecord(f, source_key, route) ==
    [f EXCEPT !.s3_idx = @ + 1,
              !.log = Append(@, [item |-> f.total_files,
                                 source_key |-> source_key,
                                 outcome |-> "Skipped", detail |-> route])]

\* the head of the iteration with total_files kept in a module-level global
\* that every activation of the handler counts in
S3RecordHead_global(i) ==
    LET f == frames[i] IN
    /\ f.pc = "s3_loop"
    /\ f.s3_idx <= Len(f.s3_event.Records)
    /\ LET s3_record == f.s3_event.Records[f.s3_idx]
           g == [f EXCEPT !.total_files = @ + 1]
       IN
       frames' = [k \in DOMAIN frames |->
           IF k # i THEN [frames[k] EXCEPT !.total_files = @ + 1]
           ELSE IF ~HasBucketName(s3_record) \/ ~HasObjectKey(s3_record)
           THEN [g EXCEPT !.pc = "fatal", !.error = "KeyError"]
           ELSE LET source_key == unquote_plus(s3_record.s3.object.key)
                    route == Route(source_key)
                IN
                IF route # "eligible"
                THEN SkipRecord(g, source_key, route)
                ELSE [g EXCEPT !.pc = "download",
                               !.bucket_name = s3_record.s3.bucket.name,
                               !.source_key = source_key]]
    /\ UNCHANGED <<calls, sink, kt, image>>

\* the head of one S3 record's iteration: the record is counted, its bucket
\* and key are read and the key decoded, and the two skip tests are made
S3RecordHead(i) ==
    LET f == frames[i] IN
    /\ f.pc = "s3_loop"
    /\ f.s3_idx <= Len(f.s3_event.Records)
    /\ LET s3_record == f.s3_event.Records[f.s3_idx]
           g == [f EXCEPT !.total_files = @ + 1]
       IN
       frames' = [frames EXCEPT ![i] =
           IF ~HasBucketName(s3_record) \/ ~HasObjectKey(s3_record)
           THEN [g EXCEPT !.pc = "fatal", !.error = "KeyError"]
           ELSE LET source_key == unquote_plus(s3_record.s3.object.key)
                    route == Route(source_key)
                IN
                IF route # "eligible"
                THEN SkipRecord(g, source_key, route)
                ELSE [g EXCEPT !.pc = "download",
                               !.bucket_name = s3_record.s3.bucket.name,
                               !.source_key = source_key]]
    /\ UNCHANGED <<calls, sink, kt, image>>

\* download_from_s3 with one retry: after the first get_object of a record
\* raised, the handler asks for the object again
Download_retry(i) ==
    LET f == frames[i] IN
    /\ f.pc = "download"
    /\ \/ \E n \in ImageLens :
             /\ frames' = [frames EXCEPT ![i] =
                    [f EXCEPT !.pc = "resize", !.image_data = n]]
             /\ calls' = Append(calls,
                    Call(i, f, "get_object", f.source_key, Ratio(0, 1), ""))
       \/ /\ frames' = [frames EXCEPT ![i] =
                 IF \E n \in 1..Len(calls) :
                        calls[n].inv = i /\ calls[n].item = f.total_files
                 THEN [f EXCEPT !.pc = "file_error", !.error = "ClientError"]
                 ELSE f]
          /\ calls' = Append(calls,
                 Call(i, f, "get_object", f.source_key, Ratio(0, 1), "ClientError"))
    /\ UNCHANGED <<sink, kt, image>>

\* download_from_s3: s3_client.get_object succeeds with the object's bytes,
\* or raises and the exception is re-raised to the handler
Download(i) ==
    LET f == frames[i] IN
    /\ f.pc = "download"
    /\ \/ \E n \in ImageLens :
             /\ frames' = [frames EXCEPT ![i] =
                    [f EXCEPT !.pc = "resize", !.image_data = n]]
             /\ calls' = Append(calls,
                    Call(i, f, "get_object", f.source_key, Ratio(0, 1), ""))
       \/ /\ frames' = [frames EXCEPT ![i] =
                 [f EXCEPT !.pc = "file_error", !.error = "ClientError"]]
          /\ calls' = Append(calls,
                 Call(i, f, "get_object", f.source_key, Ratio(0, 1), "ClientError"))
    /\ UNCHANGED <<sink, kt, image>>

\* the end of resize_image with a division that yields infinity for an
\* empty thumbnail instead of raising
ResizeEncoded_unguarded(image_len, thumbnail_len) ==
    [raised |-> "", thumbnail_data |-> thumbnail_len,
     resize_metrics |->
         [compression_ratio |-> Ratio(image_len, thumbnail_len),
          original_size_bytes |-> image_len,
          thumbnail_size_bytes |-> thumbnail_len]]

\* the end of resize_image for an image that opened and was encoded to
\* thumbnail_len bytes: len(image_data) / len(thumbnail_data) raises
\* ZeroDivisionError for an empty thumbnail, which the function re-raises
ResizeEncoded(image_len, thumbnail_len) ==
    IF thumbnail_len = 0
    THEN [raised |-> "ZeroDivisionError", thumbnail_data |-> 0,
          resize_metrics |-> NoMetrics]
    ELSE [raised |-> "", thumbnail_data |-> thumbnail_len,
          resize_metrics |->
              [compression_ratio |-> Ratio(image_len, thumbnail_len),
               original_size_bytes |-> image_len,
               thumbnail_size_bytes |-> thumbnail_len]]

\* resize_image: what a call may end in. Image.open raises for bytes that are
\* no image (empty data never is one); otherwise the image is scaled and
\* encoded.
resize_image(image_len) ==
    { [raised |-> "UnidentifiedImageError", thumbnail_data |-> 0,
       resize_metrics |-> NoMetrics] }
    \cup (IF image_len = 0
          THEN {}
          ELSE { ResizeEncoded(image_len, t) : t \in ThumbnailLens })

\* the call of resize_image inside a try/except of its own that swallows
\* the exception: the handler goes on to the upload with no thumbnail
Resize_swallowed(i) ==
    LET f == frames[i] IN
    /\ f.pc = "resize"
    /\ \E r \in resize_image(f.image_data) :
          /\ frames' = [frames EXCEPT ![i] =
                 [f EXCEPT !.pc = "upload",
                           !.thumbnail_data = r.thumbnail_data,
                           !.resize_metrics = r.resize_metrics]]
          /\ calls' = Append(calls,
                 Call(i, f, "resize_image", f.source_key,
                      r.resize_metrics.compression_ratio, r.raised))
    /\ UNCHANGED <<sink, kt, image>>

\* thumbnail_data, resize_metrics = resize_image(image_data)
Resize(i) ==
    LET f == frames[i] IN
    /\ f.pc = "resize"
    /\ \E r \in resize_image(f.image_data) :
          /\ frames' = [frames EXCEPT ![i] =
                 IF r.raised # ""
                 THEN [f EXCEPT !.pc = "file_error", !.error = r.raised]
                 ELSE [f EXCEPT !.pc = "upload",
                                !.thumbnail_data = r.thumbnail_data,
                                !.resize_metrics = r.resize_metrics]]
          /\ calls' = Append(calls,
                 Call(i, f, "resize_image", f.source_key,
                      r.resize_metrics.compression_ratio, r.raised))
    /\ UNCHANGED <<sink, kt, image>>

\* the upload with "successful_files += 1" placed ahead of it
Upload_counted_early(i) ==
    LET f == [frames[i] EXCEPT !.successful_files = @ + 1]
        thumbnail_key == ThumbnailKey(f.source_key)
    IN
    /\ f.pc = "upload"
    /\ \E ok \in BOOLEAN :
          /\ frames' = [frames EXCEPT ![i] =
                 IF ok
                 THEN [f EXCEPT !.pc = "metrics", !.thumbnail_key = thumbnail_key]
                 ELSE [f EXCEPT !.pc = "file_error", !.error = "ClientError",
                                !.thumbnail_key = thumbnail_key]]
          /\ calls' = Append(calls,
                 Call(i, f, "put_object", thumbnail_key, Ratio(0, 1),
                      IF ok THEN "" ELSE "ClientError"))
    /\ UNCHANGED <<sink, kt, image>>

\* the thumbnail key is derived and upload_thumbnail_to_s3 called:
\* s3_client.put_object succeeds, or raises and the exception is re-raised
Upload(i) ==
    LET f == frames[i]
        thumbnail_key == ThumbnailKey(f.source_key)
    IN
    /\ f.pc = "upload"
    /\ \E ok \in BOOLEAN :
          /\ frames' = [frames EXCEPT ![i] =
                 IF ok
                 THEN [f EXCEPT !.pc = "metrics", !.thumbnail_key = thumbnail_key]
                 ELSE [f EXCEPT !.pc = "file_error", !.error = "ClientError",
                                !.thumbnail_key = thumbnail_key]]
          /\ calls' = Append(calls,
                 Call(i, f, "put_object", thumbnail_key, Ratio(0, 1),
                      IF ok THEN "" ELSE "ClientError"))
    /\ UNCHANGED <<sink, kt, image>>

\* send_custom_metrics without its try/except: the sink's error gets out
send_custom_metrics_uncaught(ok) == IF ok THEN "" ELSE "ClientError"

\* send_custom_metrics: the exception it lets out, "" for none; whatever
\* cloudwatch.put_metric_data raises is caught and printed
send_custom_metrics(ok) == ""

\* the entry appended to processed_files for a stored thumbnail
ProcessedEntry(f) ==
    [source_key |-> f.source_key, thumbnail_key |-> f.thumbnail_key,
     compression_ratio |-> f.resize_metrics.compression_ratio,
     original_size_bytes |-> f.resize_metrics.original_size_bytes,
     thumbnail_size_bytes |-> f.resize_metrics.thumbnail_size_bytes]

\* the success path with "processed_files.insert(0, ...)" for the append
RecordSuccess_prepended(f) ==
    ClearItem([f EXCEPT !.pc = "s3_loop", !.s3_idx = @ + 1,
                        !.processed_files = <<ProcessedEntry(f)>> \o @,
                        !.successful_files = @ + 1,
                        !.log = Append(@,
                            [item |-> f.total_files,
                             source_key |-> f.source_key,
                             outcome |-> "Success", detail |-> ""])])

\* the success path with "processed_files.append" left out
RecordSuccess_unlisted(f) ==
    ClearItem([f EXCEPT !.pc = "s3_loop", !.s3_idx = @ + 1,
                        !.successful_files = @ + 1,
                        !.log = Append(@,
                            [item |-> f.total_files,
                             source_key |-> f.source_key,
                             outcome |-> "Success", detail |-> ""])])

\* the success path with "successful_files += 1" left out
RecordSuccess_uncounted(f) ==
    ClearItem([f EXCEPT !.pc = "s3_loop", !.s3_idx = @ + 1,
                        !.processed_files = Append(@, ProcessedEntry(f)),
                        !.log = Append(@,
                            [item |-> f.total_files,
                             source_key |-> f.source_key,
                             outcome |-> "Success", detail |-> ""])])

\* the rest of the try block after send_custom_metrics returned: the entry
\* is appended, the file counted as successful and reported
RecordSuccess(f) ==
    ClearItem([f EXCEPT !.pc = "s3_loop", !.s3_idx = @ + 1,
                        !.processed_files = Append(@, ProcessedEntry(f)),
                        !.successful_files = @ + 1,
                        !.log = Append(@,
                            [item |-> f.total_files,
                             source_key |-> f.source_key,
                             outcome |-> "Success", detail |-> ""])])

\* the metrics of a stored thumbnail are sent and the success is recorded
SendMetrics(i) ==
    LET f == frames[i] IN
    /\ f.pc = "metrics"
    /\ \E ok \in BOOLEAN :
          /\ frames' = [frames EXCEPT ![i] =
                 IF send_custom_metrics(ok) = ""
                 THEN RecordSuccess(f)
                 ELSE [f EXCEPT !.pc = "file_error",
                                !.error = send_custom_metrics(ok)]]
          /\ calls' = Append(calls,
                 MetricCall(i, f.total_files, "ThumbnailsGenerated",
                            f.resize_metrics.compression_ratio))
          /\ sink' = SinkResult(ok)
    /\ UNCHANGED <<kt, image>>

\* the except block ending in "raise": the file's error leaves the loop
ContinueAfterError_raise(f) == [f EXCEPT !.pc = "fatal"]

\* the except block ending in "break": the rest of the body is left out
ContinueAfterError_break(f) ==
    ClearItem([f EXCEPT !.pc = "s3_loop",
                        !.s3_idx = Len(f.s3_event.Records) + 1])

\* the end of the per-file except block: "continue" with the next S3 record
ContinueAfterError(f) ==
    ClearItem([f EXCEPT !.pc = "s3_loop", !.s3_idx = @ + 1])

\* except Exception as file_error: the file is counted as failed and
\* reported with its key and cause, the ThumbnailErrors metric is sent with
\* whatever that raises discarded, and the loop continues
FileError(i) ==
    LET f == frames[i] IN
    /\ f.pc = "file_error"
    /\ \E ok \in BOOLEAN :
          /\ frames' = [frames EXCEPT ![i] =
                 ContinueAfterError(
                     [f EXCEPT !.failed_files = @ + 1,
                               !.log = Append(@,
                                   [item |-> f.total_files,
                                    source_key |-> f.source_key,
                                    outcome |-> "Failed",
                                    detail |-> f.error])])]
          /\ calls' = Append(calls,
                 MetricCall(i, f.total_files, "ThumbnailErrors", Ratio(0, 1)))
          /\ sink' = SinkResult(ok)
    /\ UNCHANGED <<kt, image>>

\* the outer except block returning a statusCode 500 result instead
Reraise_return500(f) ==
    [f EXCEPT !.pc = "returned",
              !.result = [statusCode |-> 500, body |-> [error |-> f.error]]]

\* the end of the outer except block: "raise e", nothing is returned
Reraise(f) == [f EXCEPT !.pc = "raised"]

\* except Exception as e: the FatalErrors metric is sent with whatever that
\* raises discarded, and the exception is raised again
Fatal(i) ==
    LET f == frames[i] IN
    /\ f.pc = "fatal"
    /\ \E ok \in BOOLEAN :
          /\ frames' = [frames EXCEPT ![i] = Reraise(f)]
          /\ calls' = Append(calls,
                 MetricCall(i, 0, "FatalErrors", Ratio(0, 1)))
          /\ sink' = SinkResult(ok)
    /\ UNCHANGED <<kt, image>>

\* the value returned once every SQS record has been walked
Response(f) ==
    [statusCode |-> 200,
     body |-> [message |-> "Thumbnails processed successfully via SQS",
               processed_files |-> f.processed_files,
               total_processed |-> f.successful_files,
               total_files |-> f.total_files,
               failed_files |-> f.failed_files]]

\* the SQS records are exhausted: the summary is returned
Return(i) ==
    LET f == frames[i] IN
    /\ f.pc = "sqs_loop"
    /\ f.sqs_idx > Len(f.event.Records)
    /\ frames' = [frames EXCEPT ![i] =
           [f EXCEPT !.pc = "returned", !.result = Response(f)]]
    /\ UNCHANGED <<calls, sink, kt, image>>

-----------------------------------------------------------------------------
(* One invocation *)

KtIdle ==
    [pc |-> "idle", raw |-> <<>>, source_key |-> <<>>, route |-> "",
     thumbnail_key |-> <<>>]

\* no image is open
ImageIdle == [pc |-> "idle", original_size |-> <<0, 0>>, size |-> <<0, 0>>,
              final_sizes |-> <<>>]

\* one invocation, about to start on an event without 'Records' or on one
\* of the events of the shapes above
Init ==
    /\ \/ frames = [i \in {1} |-> InitFrame(EmptyDict)]
       \/ \E shapes \in EventShapes :
             \E items \in [1..ShapeItems(shapes) -> S3Records] :
                 frames = [i \in {1} |-> InitFrame(EventOf(shapes, items))]
    /\ calls = <<>>
    /\ sink = "none"
    /\ kt = KtIdle
    /\ image = ImageIdle

Next ==
    \/ \E i \in DOMAIN frames : Start(i)
    \/ \E i \in DOMAIN frames : SqsRecord(i)
    \/ \E i \in DOMAIN frames : S3LoopEnd(i)
    \/ \E i \in DOMAIN frames : S3RecordHead(i)
    \/ \E i \in DOMAIN frames : Download(i)
    \/ \E i \in DOMAIN frames : Resize(i)
    \/ \E i \in DOMAIN frames : Upload(i)
    \/ \E i \in DOMAIN frames : SendMetrics(i)
    \/ \E i \in DOMAIN frames : FileError(i)
    \/ \E i \in DOMAIN frames : Fatal(i)
    \/ \E i \in DOMAIN frames : Return(i)

Spec == Init /\ [][Next]_vars

\* object keys that tell the S3 records of one event apart: two keys under
\* images/ ("images%2Ftest.jpg", "images/a+b.png") and "other/x.png"
OrderRawKeys ==
    { <<"i", "m", "a", "g", "e", "s", "%", "2", "F",
        "t", "e", "s", "t", ".", "j", "p", "g">>,
      ImagesPrefix \o <<"a", "+", "b", ".", "p", "n", "g">>,
      <<"o", "t", "h", "e", "r", "/", "x", ".", "p", "n", "g">> }

\* most S3 records in one event of those
MaxOrderItems == 2

\* one invocation, about to start on an event of the shapes above whose S3
\* records, MaxOrderItems at most, carry these keys
OrderInit ==
    /\ \E shapes \in { sh \in EventShapes : ShapeItems(sh) <= MaxOrderItems } :
          \E items \in [1..ShapeItems(shapes) ->
                            { S3Record(b, k) : b \in Buckets, k \in OrderRawKeys }] :
              frames = [i \in {1} |-> InitFrame(EventOf(shapes, items))]
    /\ calls = <<>>
    /\ sink = "none"
    /\ kt = KtIdle
    /\ image = ImageIdle

OrderSpec == OrderInit /\ [][Next]_vars

\* the key of the handler's test event, percent-encoded: "images%2Ftest.jpg"
TestRawKey ==
    <<"i", "m", "a", "g", "e", "s", "%", "2", "F",
      "t", "e", "s", "t", ".", "j", "p", "g">>

\* a key outside images/: "other/x.png"
OtherRawKey == <<"o", "t", "h", "e", "r", "/", "x", ".", "p", "n", "g">>

\* the envelopes two concurrent invocations are given: the test event (one
\* message, one record under images/); one message with a record outside
\* images/ and one under it; a message with one record under images/
\* followed by a message whose body is no JSON
ConcEvents ==
    { EventOf(<<[kind |-> "records", n |-> 1]>>,
              <<S3Record(<<"b">>, TestRawKey)>>),
      EventOf(<<[kind |-> "records", n |-> 2]>>,
              <<S3Record(<<"b">>, OtherRawKey), S3Record(<<"b">>, TestRawKey)>>),
      EventOf(<<[kind |-> "records", n |-> 1], [kind |-> "bad-json", n |-> 0]>>,
              <<S3Record(<<"b">>, TestRawKey)>>) }

\* two activations of lambda_handler on different envelopes, neither
\* started; they share s3_client and cloudwatch (calls, sink) only
ConcInit ==
    /\ \E e1 \in ConcEvents : \E e2 \in ConcEvents \ { e1 } :
          frames = [i \in {1, 2} |-> InitFrame(IF i = 1 THEN e1 ELSE e2)]
    /\ calls = <<>>
    /\ sink = "none"
    /\ kt = KtIdle
    /\ image = ImageIdle

\* the steps of the two activations interleave in any order
ConcSpec == ConcInit /\ [][Next]_vars

-----------------------------------------------------------------------------
(* The handling of one object key, over a wider set of keys *)

\* pieces of raw keys: "images/", "thumbnails/", "images%2F", "image", "s",
\* "/", "%2", "F", "a.jpg", "+"
KeyFragments ==
    { ImagesPrefix, ThumbnailsPrefix,
      <<"i", "m", "a", "g", "e", "s", "%", "2", "F">>,
      <<"i", "m", "a", "g", "e">>, <<"s">>, <<"/">>, <<"%", "2">>, <<"F">>,
      <<"a", ".", "j", "p", "g">>, <<"+">> }

RECURSIVE Concat(_)
\* the concatenation of a sequence of strings
Concat(parts) ==
    IF parts = <<>> THEN <<>> ELSE Head(parts) \o Concat(Tail(parts))

\* the raw keys: one to MaxFrags fragments, concatenated
RawKeys ==
    { Concat(parts) : parts \in UNION { [1..n -> KeyFragments] : n \in 1..MaxFrags } }

KeyInit ==
    /\ frames = EmptyDict
    /\ calls = <<>>
    /\ sink = "none"
    /\ \E raw \in RawKeys : kt = [KtIdle EXCEPT !.pc = "raw", !.raw = raw]
    /\ image = ImageIdle

\* source_key = urllib.parse.unquote_plus(key, encoding='utf-8')
KeyDecode ==
    /\ kt.pc = "raw"
    /\ kt' = [kt EXCEPT !.pc = "decoded", !.source_key = unquote_plus(kt.raw)]
    /\ UNCHANGED <<frames, calls, sink, image>>

\* the two skip tests
KeyClassify ==
    /\ kt.pc = "decoded"
    /\ kt' = [kt EXCEPT !.pc = "routed", !.route = Route(kt.source_key)]
    /\ UNCHANGED <<frames, calls, sink, image>>

\* the thumbnail key of a key that was not skipped
KeyDerive ==
    /\ kt.pc = "routed"
    /\ kt.route = "eligible"
    /\ kt' = [kt EXCEPT !.pc = "derived",
                        !.thumbnail_key = ThumbnailKey(kt.source_key)]
    /\ UNCHANGED <<frames, calls, sink, image>>

KeyNext == KeyDecode \/ KeyClassify \/ KeyDerive

KeySpec == KeyInit /\ [][KeyNext]_vars

-----------------------------------------------------------------------------
(* The size of the thumbnail: resize_image seen as a function of the       *)
(* image's dimensions.  image.thumbnail is PIL's Image.thumbnail; its size *)
(* computation is written out here with exact integer arithmetic where PIL *)
(* divides floating-point numbers.                                         *)

\* the widest and highest image opened
MaxDim == 420
\* how many times an image is put through resize_image, each time after the
\* first on the thumbnail the time before produced
MaxPasses == 2

\* the default of resize_image's max_size parameter
max_size == <<200, 200>>

Abs(n) == IF n < 0 THEN -n ELSE n

\* PIL's round_aspect: of floor and ceil of a quotient the one whose key is
\* smaller (floor on a tie, as min returns its first minimum), at least 1
round_aspect(floor, ceil, keyFloor, keyCeil) ==
    LET nearest == IF keyCeil < keyFloor THEN ceil ELSE floor IN
    IF nearest > 1 THEN nearest ELSE 1

\* the thumbnail scaled to fit the box whatever the size of the image
thumbnail_fit(size, box) ==
    IF size[1] * box[2] >= size[2] * box[1]
    THEN <<box[1], (IF (box[1] * size[2]) \div size[1] > 1
                    THEN (box[1] * size[2]) \div size[1] ELSE 1)>>
    ELSE <<(IF (box[2] * size[1]) \div size[2] > 1
            THEN (box[2] * size[1]) \div size[2] ELSE 1), box[2]>>

\* the thumbnail of an image larger than the box made by halving both sides
thumbnail_reduce(size, box) ==
    IF box[1] >= size[1] /\ box[2] >= size[2] THEN size
    ELSE <<(IF size[1] \div 2 > 1 THEN size[1] \div 2 ELSE 1),
           (IF size[2] \div 2 > 1 THEN size[2] \div 2 ELSE 1)>>

\* image.thumbnail(max_size, Image.Resampling.LANCZOS): the size of the
\* image afterwards.  An image that fits the box is left as it is; a larger
\* one keeps the side that binds at the box's and gets the other side from
\* the aspect ratio width / height, rounded by round_aspect.
thumbnail(size, box) ==
    LET width == size[1]
        height == size[2]
        x == box[1]
        y == box[2]
        floorX == (y * width) \div height
        ceilX == (y * width + height - 1) \div height
        \* |aspect - n / y|, times y * height
        KeyX(n) == Abs(width * y - n * height)
        floorY == (x * height) \div width
        ceilY == (x * height + width - 1) \div width
        \* 0 for n = 0, else |aspect - x / n|, times height * floorY * ceilY
        KeyY(n) == IF n = 0 THEN 0
                   ELSE Abs(width * n - x * height) * ((floorY * ceilY) \div n)
    IN
    IF x >= width /\ y >= height THEN size
    ELSE IF x * height >= width * y
    THEN <<round_aspect(floorX, ceilX, KeyX(floorX), KeyX(ceilX)), y>>
    ELSE <<x, round_aspect(floorY, ceilY, KeyY(floorY), KeyY(ceilY))>>

\* an image of any size up to MaxDim x MaxDim has been opened
ImageInit ==
    /\ frames = EmptyDict
    /\ calls = <<>>
    /\ sink = "none"
    /\ kt = KtIdle
    /\ \E w \in 1..MaxDim : \E h \in 1..MaxDim :
          image = [ImageIdle EXCEPT !.pc = "opened",
                                    !.original_size = <<w, h>>,
                                    !.size = <<w, h>>]

\* resize_image from image.thumbnail to its return: the image is scaled
\* and saved, and final_size reported
ImageThumbnail ==
    /\ image.pc = "opened"
    /\ image' = [image EXCEPT !.pc = "saved",
                              !.size = thumbnail(image.size, max_size),
                              !.final_sizes =
                                  Append(@, thumbnail(image.size, max_size))]
    /\ UNCHANGED <<frames, calls, sink, kt>>

\* Image.open on the thumbnail resize_image returned: the saved JPEG has
\* the size the image had when it was saved
ImageOpen ==
    /\ image.pc = "saved"
    /\ Len(image.final_sizes) < MaxPasses
    /\ image' = [image EXCEPT !.pc = "opened", !.original_size = image.size]
    /\ UNCHANGED <<frames, calls, sink, kt>>

ImageNext == ImageThumbnail \/ ImageOpen

ImageSpec == ImageInit /\ [][ImageNext]_vars

-----------------------------------------------------------------------------
(* What the claims speak of *)

\* every field the handler reads of the event is there and every body is JSON
EnvelopeParses(e) ==
    /\ "Records" \in DOMAIN e
    /\ \A m \in 1..Len(e.Records) :
          LET sqs_record == e.Records[m] IN
          /\ "body" \in DOMAIN sqs_record
          /\ sqs_record.body.json
          /\ "Records" \in DOMAIN sqs_record.body.value
          /\ \A n \in 1..Len(sqs_record.body.value.Records) :
                /\ HasBucketName(sqs_record.body.value.Records[n])
                /\ HasObjectKey(sqs_record.body.value.Records[n])

RECURSIVE FlattenFrom(_, _)
\* the S3 records of SQS records m, m + 1, ... of an event whose envelope
\* parses, in encounter order
FlattenFrom(e, m) ==
    IF m > Len(e.Records) THEN <<>>
    ELSE e.Records[m].body.value.Records \o FlattenFrom(e, m + 1)

\* the work items of an event whose envelope parses
WorkItems(e) == FlattenFrom(e, 1)

\* the calls issued on the storage gateway and the transform for S3 record j
\* of invocation i
ItemCalls(i, j) ==
    { n \in 1..Len(calls) :
          /\ calls[n].inv = i
          /\ calls[n].item = j
          /\ calls[n].op \in { "get_object", "resize_image", "put_object" } }

\* S3 record j of invocation i had its object fetched, transformed and stored
Stored(i, j) ==
    \E n \in 1..Len(calls) :
        /\ calls[n].inv = i
        /\ calls[n].item = j
        /\ calls[n].op = "put_object"
        /\ calls[n].raised = ""

\* a fetch, transform or store of S3 record j of invocation i raised
StepFailed(i, j) ==
    \E n \in 1..Len(calls) :
        /\ calls[n].inv = i
        /\ calls[n].item = j
        /\ calls[n].op \in { "get_object", "resize_image", "put_object" }
        /\ calls[n].raised # ""

\* the route of every raw key an S3 record of an event may carry, once decoded
RouteOfRaw ==
    [k \in HandlerRawKeys \cup { ThumbnailsPrefix } |-> Route(unquote_plus(k))]

\* how many entries of a log have the given outcome
Count(log, outcome) ==
    Cardinality({ j \in 1..Len(log) : log[j].outcome = outcome })

\* the outcome an item has by its own key and its own gateway responses
OwnOutcome(i, j, item) ==
    IF RouteOfRaw[item.s3.object.key] # "eligible" THEN "Skipped"
    ELSE IF StepFailed(i, j) THEN "Failed"
    ELSE "Success"

\* C1: failure isolation.  For an event whose envelope parses, a failure of
\* fetch, transform or store never aborts the batch: the handler never
\* takes the fatal path, every item it has resolved has the outcome its own
\* key and its own gateway responses give it whatever happened to the items
\* before it, failed_files counts exactly the items whose own step failed,
\* and when the handler returns every item of the event has been resolved.
FailureIsolation ==
    \A i \in DOMAIN frames :
        LET f == frames[i] IN
        EnvelopeParses(f.event) =>
            /\ f.pc \notin { "fatal", "raised" }
            /\ Len(f.log) <= Len(WorkItems(f.event))
            /\ \A j \in 1..Len(f.log) :
                  /\ f.log[j].item = j
                  /\ f.log[j].outcome = OwnOutcome(i, j, WorkItems(f.event)[j])
            /\ f.failed_files =
                   Cardinality({ j \in 1..Len(f.log) : StepFailed(i, j) })
            /\ f.pc = "returned" => Len(f.log) = Len(WorkItems(f.event))

\* a batch of three has returned in which the first item's fetch failed, the
\* second was stored and the third was skipped
FailureIsolationWitness ==
    \E i \in DOMAIN frames :
        LET f == frames[i] IN
        /\ f.pc = "returned"
        /\ Len(f.log) = 3
        /\ f.log[1].outcome = "Failed"
        /\ \E n \in ItemCalls(i, 1) :
              calls[n].op = "get_object" /\ calls[n].raised # ""
        /\ f.log[2].outcome = "Success"
        /\ f.log[3].outcome = "Skipped"

\* C2: count conservation.  In every returned result, total_processed plus
\* failed_files plus the number of items that took a skip branch equals
\* total_files, and total_files is the number of S3 records of all bodies.
CountConservation ==
    \A i \in DOMAIN frames :
        LET f == frames[i] IN
        f.pc = "returned" =>
            /\ f.result.body.total_processed + f.result.body.failed_files
                   + Count(f.log, "Skipped")
               = f.result.body.total_files
            /\ f.result.body.total_files = Len(WorkItems(f.event))

\* a returned batch with a stored, a failed and a skipped item
CountConservationWitness ==
    \E i \in DOMAIN frames :
        LET f == frames[i] IN
        /\ f.pc = "returned"
        /\ f.result.body.total_processed = 1
        /\ f.result.body.failed_files = 1
        /\ Count(f.log, "Skipped") = 1
        /\ f.result.body.total_files = 3

\* C3: acknowledgement.  Whenever the handler has walked every record it
\* returns the statusCode 200 result, however many items failed; it takes
\* the fatal path only for an event whose envelope does not parse, and then
\* with the envelope's error, never with the error of a fetch, transform or
\* store.
Acknowledgement ==
    \A i \in DOMAIN frames :
        LET f == frames[i] IN
        /\ f.pc = "returned" =>
              /\ f.result.statusCode = 200
              /\ f.result.body.failed_files = Count(f.log, "Failed")
              /\ EnvelopeParses(f.event)
        /\ f.pc \in { "fatal", "raised" } =>
              /\ ~EnvelopeParses(f.event)
              /\ f.error \in { "KeyError", "JSONDecodeError" }

\* a batch of two or more items, all of them failed, was acknowledged
AcknowledgementWitness ==
    \E i \in DOMAIN frames :
        LET f == frames[i] IN
        /\ f.pc = "returned"
        /\ f.result.statusCode = 200
        /\ f.result.body.total_files >= 2
        /\ f.result.body.failed_files = f.result.body.total_files

\* C4: fatal envelope failure.  For an event with a body that is no JSON or
\* with a missing 'Records', 'body', s3.bucket.name or s3.object.key, at
\* whatever position, the handler never returns a result object: it ends by
\* raising the envelope's error.
FatalEnvelopeFailure ==
    \A i \in DOMAIN frames :
        LET f == frames[i] IN
        /\ ~EnvelopeParses(f.event) =>
              /\ f.pc # "returned"
              /\ f.result = EmptyDict
        /\ f.pc = "raised" =>
              /\ f.result = EmptyDict
              /\ f.error \in { "KeyError", "JSONDecodeError" }

\* the handler raised on a bad record that is not the first: an item of an
\* earlier record had already been stored
FatalEnvelopeFailureWitness ==
    \E i \in DOMAIN frames :
        LET f == frames[i] IN
        /\ f.pc = "raised"
        /\ f.sqs_idx = 2
        /\ f.successful_files >= 1

\* C5: skipping has no side effects.  For an item that took a skip branch
\* no call was issued on the storage gateway, the transform or the
\* telemetry sink, and the skip changed neither counter: successful_files
\* and failed_files count only items that were not skipped.
SkipNoSideEffects ==
    \A i \in DOMAIN frames :
        LET f == frames[i] IN
        /\ \A j \in 1..Len(f.log) :
              f.log[j].outcome = "Skipped" =>
                  ~\E n \in 1..Len(calls) :
                        calls[n].inv = i /\ calls[n].item = j
        /\ f.successful_files = Count(f.log, "Success")
        /\ f.failed_files = Count(f.log, "Failed")

\* "other/x.png" and "thumbnails/x.jpg" were both skipped in one batch
SkipNoSideEffectsWitness ==
    \E i \in DOMAIN frames :
        LET f == frames[i] IN
        \E j, k \in 1..Len(f.log) :
            /\ f.log[j].outcome = "Skipped"
            /\ f.log[k].outcome = "Skipped"
            /\ startswith(f.log[j].source_key, ThumbnailsPrefix)
            /\ startswith(f.log[k].source_key, <<"o", "t", "h", "e", "r", "/">>)

\* the first characters of s are those of p
HasPrefix(s, p) ==
    /\ Len(s) >= Len(p)
    /\ \A n \in 1..Len(p) : s[n] = p[n]

\* C6: routing classification.  Every decoded key is routed to exactly one
\* of skip-wrong-prefix, skip-is-thumbnail and eligible, before anything is
\* derived from it; it is eligible if and only if it starts with "images/"
\* and does not start with "thumbnails/", so that a key that starts with
\* "thumbnails/" is skipped.
RoutingClassification ==
    /\ kt.pc \in { "raw", "decoded" } => kt.route = "" /\ kt.thumbnail_key = <<>>
    /\ kt.pc \in { "routed", "derived" } =>
          /\ kt.route \in { "skip-wrong-prefix", "skip-is-thumbnail", "eligible" }
          /\ kt.route = "eligible" <=>
                 /\ HasPrefix(kt.source_key, ImagesPrefix)
                 /\ ~HasPrefix(kt.source_key, ThumbnailsPrefix)
          /\ HasPrefix(kt.source_key, ThumbnailsPrefix) =>
                 kt.route # "eligible"
    /\ kt.pc = "derived" => kt.route = "eligible"

\* a key that is eligible only once decoded ("images%2F..."), routed
RoutingClassificationWitness ==
    /\ kt.pc = "routed"
    /\ kt.route = "eligible"
    /\ kt.raw # kt.source_key
    /\ ~HasPrefix(kt.raw, ImagesPrefix)

\* C7: thumbnail key derivation, as claimed: the derived key is the source
\* key with the one leading "images/" replaced by "thumbnails/" and the rest
\* of the key unchanged.
ThumbnailKeyReplacesFirstOnly ==
    kt.pc = "derived" =>
        kt.thumbnail_key =
            ThumbnailsPrefix \o SubSeq(kt.source_key, 8, Len(kt.source_key))

\* the latest call was a put_metric_data of this metric that raised
SinkJustFailed(metric) ==
    /\ sink = "failed"
    /\ calls # <<>>
    /\ calls[Len(calls)].op = "put_metric_data"
    /\ calls[Len(calls)].metric = metric

\* C8: telemetry never alters the primary control path.  Whether or not a
\* put_metric_data call raised: an item whose thumbnail was stored is
\* reported and counted as a success and leaves the pipeline only so; an
\* item is reported as failed only with the error of its own fetch,
\* transform or store; and the fatal path ends in raising the envelope's
\* error with no result.
TelemetryNeverAlters ==
    \A i \in DOMAIN frames :
        LET f == frames[i] IN
        /\ \A j \in 1..Len(f.log) :
              /\ Stored(i, j) => f.log[j].outcome = "Success"
              /\ f.log[j].outcome = "Failed" =>
                    \E n \in 1..Len(calls) :
                        /\ calls[n].inv = i
                        /\ calls[n].item = j
                        /\ calls[n].op # "put_metric_data"
                        /\ calls[n].raised # ""
                        /\ calls[n].raised = f.log[j].detail
        /\ f.successful_files =
               Cardinality({ j \in 1..Len(f.log) : Stored(i, j) })
        /\ f.failed_files =
               Cardinality({ j \in 1..Len(f.log) : ~Stored(i, j)
                                 /\ f.log[j].outcome # "Skipped" })
        /\ (f.pc = "file_error" => ~Stored(i, f.total_files))
        /\ (f.pc = "raised" =>
               f.result = EmptyDict /\ f.error \in { "KeyError", "JSONDecodeError" })
        /\ (f.pc = "returned" => f.result.statusCode = 200)

\* the sink raised on a stored item's success metrics and the item is
\* reported and counted as a success all the same
TelemetryNeverAltersWitness ==
    \E i \in DOMAIN frames :
        LET f == frames[i] IN
        /\ SinkJustFailed("ThumbnailsGenerated")
        /\ calls[Len(calls)].inv = i
        /\ Len(f.log) = calls[Len(calls)].item
        /\ f.log[Len(f.log)].outcome = "Success"
        /\ f.successful_files = 1

\* the source keys of the entries of a log with the given outcome, in order
KeysOf(log, outcome) ==
    LET hit(entry) == entry.outcome = outcome
        picked == SelectSeq(log, hit)
    IN [n \in 1..Len(picked) |-> picked[n].source_key]

\* C9 as claimed: the returned item sequence holds one outcome for every
\* work item, so that its length equals total_files.
ItemsCoverEveryWorkItem ==
    \A i \in DOMAIN frames :
        LET f == frames[i] IN
        f.pc = "returned" =>
            Len(f.result.body.processed_files) = f.result.body.total_files

\* C9, amended: the returned processed_files holds exactly one entry for
\* every stored item, in order, carrying the item's source key and
\* thumbnail key, so that its length equals total_processed; a failed or
\* skipped item has no entry in the result: a failed item is counted in
\* failed_files and reported in the log with its source key and its cause.
ProcessedFilesCoverSuccesses ==
    \A i \in DOMAIN frames :
        LET f == frames[i] IN
        f.pc = "returned" =>
            LET pf == f.result.body.processed_files IN
            /\ Len(pf) = f.result.body.total_processed
            /\ [n \in 1..Len(pf) |-> pf[n].source_key] = KeysOf(f.log, "Success")
            /\ \A n \in 1..Len(pf) :
                  \E m \in 1..Len(calls) :
                      /\ calls[m].inv = i
                      /\ calls[m].op = "put_object"
                      /\ calls[m].raised = ""
                      /\ calls[m].key = pf[n].thumbnail_key
            /\ Len(pf) = f.result.body.total_files
                           - f.result.body.failed_files - Count(f.log, "Skipped")
            /\ \A j \in 1..Len(f.log) :
                  f.log[j].outcome = "Failed" =>
                      /\ f.log[j].source_key =
                             unquote_plus(WorkItems(f.event)[j].s3.object.key)
                      /\ f.log[j].detail \in
                             { "ClientError", "UnidentifiedImageError",
                               "ZeroDivisionError" }

\* a returned batch of three with one entry in processed_files, one failed
\* item and one skipped item
ProcessedFilesCoverSuccessesWitness ==
    \E i \in DOMAIN frames :
        LET f == frames[i] IN
        /\ f.pc = "returned"
        /\ Len(f.result.body.processed_files) = 1
        /\ f.result.body.total_files = 3
        /\ Count(f.log, "Failed") = 1
        /\ f.log[2].outcome = "Success"

\* C10: zero-byte transform output.  An item whose transform produced an
\* empty thumbnail (the division by its length raised inside resize_image)
\* has no put issued and is counted and reported as failed with that
\* error; no entry of processed_files, no call and no frame carries a
\* compression ratio with a zero denominator or a thumbnail of zero bytes.
ZeroByteThumbnailFails ==
    \A i \in DOMAIN frames :
        LET f == frames[i] IN
        /\ \A n \in 1..Len(calls) :
              /\ calls[n].ratio[2] # 0
              /\ (calls[n].inv = i /\ calls[n].op = "resize_image"
                      /\ calls[n].raised = "ZeroDivisionError") =>
                    /\ ~\E m \in ItemCalls(i, calls[n].item) :
                           calls[m].op = "put_object"
                    /\ calls[n].item <= Len(f.log) =>
                           /\ f.log[calls[n].item].outcome = "Failed"
                           /\ f.log[calls[n].item].detail = "ZeroDivisionError"
                    /\ calls[n].item > Len(f.log) =>
                           /\ f.pc = "file_error"
                           /\ f.error = "ZeroDivisionError"
              /\ (calls[n].inv = i /\ calls[n].op = "put_metric_data"
                      /\ calls[n].metric = "ThumbnailsGenerated") =>
                    calls[n].ratio[1] > 0
        /\ \A n \in 1..Len(f.processed_files) :
              /\ f.processed_files[n].compression_ratio[2] # 0
              /\ f.processed_files[n].thumbnail_size_bytes > 0
        /\ f.pc \in { "upload", "metrics" } =>
              /\ f.thumbnail_data > 0
              /\ f.resize_metrics.compression_ratio[2] # 0
        /\ f.failed_files >=
               Cardinality({ n \in 1..Len(calls) :
                                 /\ calls[n].inv = i
                                 /\ calls[n].op = "resize_image"
                                 /\ calls[n].raised = "ZeroDivisionError"
                                 /\ calls[n].item <= Len(f.log) })

\* an item whose thumbnail came out empty has been counted as failed, with
\* a fetch and a transform but no put issued for it
ZeroByteThumbnailFailsWitness ==
    \E i \in DOMAIN frames :
        LET f == frames[i] IN
        /\ f.failed_files = 1
        /\ Len(f.log) = 1
        /\ f.log[1].detail = "ZeroDivisionError"
        /\ Cardinality(ItemCalls(i, 1)) = 2

\* the larger of two numbers
Larger(a, b) == IF a >= b THEN a ELSE b

\* C11: transform dimension bound.  Whenever resize_image has scaled an
\* image whose sides are both at least 1, neither side of the thumbnail
\* exceeds 200, neither side exceeds the original's (and is at least 1),
\* and each side is within one pixel of the original's side times the scale
\* factor min(1, 200 / width, 200 / height), so that the aspect ratio is the
\* original's up to the rounding of a side to a whole pixel.
TransformDimensionBound ==
    image.pc = "saved" =>
        LET origW == image.original_size[1]
            origH == image.original_size[2]
            finalW == image.size[1]
            finalH == image.size[2]
            longest == Larger(origW, origH)
        IN
        /\ Larger(finalW, finalH) <= 200
        /\ 1 <= finalW /\ finalW <= origW
        /\ 1 <= finalH /\ finalH <= origH
        /\ longest <= 200 => finalW = origW /\ finalH = origH
        /\ longest > 200 =>
              /\ Abs(finalW * longest - origW * 200) < longest
              /\ Abs(finalH * longest - origH * 200) < longest

\* an image of 300 x 200 has been scaled, to 200 x 133
TransformDimensionBoundWitness ==
    /\ image.pc = "saved"
    /\ image.original_size = <<300, 200>>
    /\ image.size = <<200, 133>>

\* C12: transform idempotence on dimensions.  The thumbnail resize_image
\* makes of its own output has the size of that output: the second
\* application leaves the dimensions the first one produced.
TransformIdempotent ==
    Len(image.final_sizes) >= 2 =>
        /\ image.final_sizes[2] = image.final_sizes[1]
        /\ image.size = image.final_sizes[1]

\* the thumbnail of a thumbnail that the first application had scaled down
\* from a larger image
TransformIdempotentWitness ==
    /\ Len(image.final_sizes) = 2
    /\ image.pc = "saved"
    /\ image.final_sizes[1] = <<133, 200>>
    /\ image.original_size = <<133, 200>>

\* C13: parse before process.  Whenever an invocation ends in a fatal
\* parse failure (a body that is missing or no JSON, or a record that lacks
\* a field the handler reads), no get_object, no resize, no put_object and
\* no metric for any S3 record of that event has been issued: every body is
\* parsed before the first S3 record is processed.
ParseBeforeProcess ==
    \A i \in DOMAIN frames :
        frames[i].pc \in { "fatal", "raised" } =>
            \A n \in 1..Len(calls) :
                calls[n].inv = i => calls[n].item = 0

\* call n is the first call issued for its S3 record
FirstOfItem(n) ==
    \/ n = 1
    \/ calls[n - 1].inv # calls[n].inv
    \/ calls[n - 1].item # calls[n].item

\* call n is a fetch, a transform or a store
IsStep(n) == calls[n].op \in { "get_object", "resize_image", "put_object" }

\* C14: pipeline step order per item.  The calls issued for one S3 record
\* come in the order get_object, resize_image, put_object, success metric:
\* the record's first call is its fetch; a transform directly follows a
\* fetch that returned; a put directly follows a transform that returned;
\* the ThumbnailsGenerated metric directly follows a put that returned; and
\* after a fetch, transform or put that raised, the only call for the
\* record is the ThumbnailErrors metric (so no transform and no put after a
\* failed fetch, no put after a failed transform).
PipelineStepOrder ==
    \A n \in 1..Len(calls) :
        calls[n].item >= 1 =>
            /\ (calls[n].op = "get_object") <=> FirstOfItem(n)
            /\ ~FirstOfItem(n) =>
                  /\ IsStep(n - 1)
                  /\ calls[n].op = "resize_image" =>
                        /\ calls[n - 1].op = "get_object"
                        /\ calls[n - 1].raised = ""
                  /\ calls[n].op = "put_object" =>
                        /\ calls[n - 1].op = "resize_image"
                        /\ calls[n - 1].raised = ""
                  /\ calls[n].op = "put_metric_data" =>
                        IF calls[n - 1].raised = ""
                        THEN /\ calls[n - 1].op = "put_object"
                             /\ calls[n].metric = "ThumbnailsGenerated"
                        ELSE calls[n].metric = "ThumbnailErrors"
                  /\ calls[n - 1].raised # "" => calls[n].op = "put_metric_data"

\* one record went through all four steps, another one's fetch raised and
\* a third one's transform raised
PipelineStepOrderWitness ==
    /\ \E n \in 1..Len(calls) : calls[n].metric = "ThumbnailsGenerated"
    /\ \E n \in 1..Len(calls) :
          /\ calls[n].op = "get_object"
          /\ calls[n].raised # ""
    /\ \E n \in 1..Len(calls) :
          /\ calls[n].op = "resize_image"
          /\ calls[n].raised # ""

\* C15: no retry at the item layer.  Within one invocation no two calls
\* are the same step (get_object, resize_image, put_object) of the same S3
\* record, whether the first of them returned or raised, and every such
\* call is for a record the invocation has counted.
NoRetry ==
    \A n \in 1..Len(calls) :
        IsStep(n) =>
            /\ calls[n].item \in 1..frames[calls[n].inv].total_files
            /\ \A m \in 1..(n - 1) :
                  ~ /\ calls[m].inv = calls[n].inv
                    /\ calls[m].item = calls[n].item
                    /\ calls[m].op = calls[n].op

\* a record whose fetch raised has been resolved as failed with that one
\* get_object as its only step, after a record whose put raised had one
\* get, one transform and one put
NoRetryWitness ==
    \E i \in DOMAIN frames :
        LET f == frames[i] IN
        /\ Len(f.log) = 2
        /\ f.failed_files = 2
        /\ Cardinality(ItemCalls(i, 1)) = 3
        /\ Cardinality(ItemCalls(i, 2)) = 1

\* the body of an SQS record is there, is JSON and holds 'Records'
BodyParses(sqs_record) ==
    /\ "body" \in DOMAIN sqs_record
    /\ sqs_record.body.json
    /\ "Records" \in DOMAIN sqs_record.body.value

RECURSIVE EncounteredFrom(_, _)
\* the S3 records of SQS records m, m + 1, ... of an event, in the order
\* message records arrive and storage-event records stand in a message, up
\* to the first body that does not parse
EncounteredFrom(e, m) ==
    IF m > Len(e.Records) \/ ~BodyParses(e.Records[m]) THEN <<>>
    ELSE e.Records[m].body.value.Records \o EncounteredFrom(e, m + 1)

\* C16: encounter order is preserved.  The k-th S3 record the handler
\* resolves is the k-th S3 record of the event in encounter order; the calls
\* issued for the records follow that order; and the entries of
\* processed_files are, in the same relative order, the records resolved as
\* successes.
EncounterOrder ==
    \A i \in DOMAIN frames :
        LET f == frames[i]
            pf == f.processed_files
            items == EncounteredFrom(f.event, 1)
        IN
        /\ \A k \in 1..Len(f.log) :
              /\ f.log[k].item = k
              /\ f.log[k].source_key = unquote_plus(items[k].s3.object.key)
        /\ \A n \in 2..Len(calls) :
              calls[n].item >= 1 => calls[n - 1].item <= calls[n].item
        /\ [n \in 1..Len(pf) |-> pf[n].source_key] = KeysOf(f.log, "Success")
        /\ f.pc = "returned" => f.result.body.processed_files = pf

\* a returned batch of two messages whose two records, with different
\* keys, were both stored
EncounterOrderWitness ==
    \E i \in DOMAIN frames :
        LET f == frames[i] IN
        /\ f.pc = "returned"
        /\ Len(f.event.Records) = 2
        /\ Len(f.log) = 2
        /\ Len(f.result.body.processed_files) = 2
        /\ f.result.body.processed_files[1].source_key = f.log[1].source_key
        /\ f.result.body.processed_files[2].source_key = f.log[2].source_key
        /\ f.log[1].source_key # f.log[2].source_key

\* the S3 records of invocation i that had a call made for them with the
\* given outcome: stored, or failed at a step
OwnStored(i) ==
    { calls[n].item : n \in { m \in 1..Len(calls) :
                                  /\ calls[m].inv = i
                                  /\ calls[m].op = "put_object"
                                  /\ calls[m].raised = "" } }

OwnFailed(i) ==
    { calls[n].item : n \in { m \in 1..Len(calls) :
                                  /\ calls[m].inv = i
                                  /\ IsStep(m)
                                  /\ calls[m].raised # "" } }

\* C17: independence of concurrent invocations.  With two invocations
\* interleaved on different envelopes, the counters, the log,
\* processed_files and the result of each are what its own envelope and the
\* responses to its own calls give, whatever the other one has done: each
\* resolved record has the outcome its own key and own responses decide, the
\* counters count the invocation's own records only, every call it issued
\* is for one of its own records, and a returned result reports its own
\* totals.
InvocationsIndependent ==
    \A i \in DOMAIN frames :
        LET f == frames[i]
            items == EncounteredFrom(f.event, 1)
            resolved == 1..Len(f.log)
        IN
        /\ f.total_files \in { Len(f.log), Len(f.log) + 1 }
        /\ f.total_files <= Len(items)
        /\ \A j \in resolved :
              /\ f.log[j].source_key = unquote_plus(items[j].s3.object.key)
              /\ f.log[j].outcome = OwnOutcome(i, j, items[j])
        /\ f.successful_files = Cardinality(OwnStored(i) \cap resolved)
        /\ f.failed_files = Cardinality(OwnFailed(i) \cap resolved)
        /\ Len(f.processed_files) = f.successful_files
        /\ \A n \in 1..Len(calls) :
              (calls[n].inv = i /\ calls[n].item >= 1) =>
                  /\ calls[n].item <= f.total_files
                  /\ IsStep(n) =>
                        calls[n].key \in
                            { unquote_plus(items[calls[n].item].s3.object.key),
                              ThumbnailKey(unquote_plus(
                                  items[calls[n].item].s3.object.key)) }
        /\ f.pc = "returned" =>
              /\ f.result.body.total_files = Len(items)
              /\ f.result.body.total_processed = Cardinality(OwnStored(i))
              /\ f.result.body.failed_files = Cardinality(OwnFailed(i))
              /\ f.result.body.processed_files = f.processed_files

\* both invocations have ended, one returning a result with one stored
\* record and the other, whose steps were issued in between, one with a
\* failed record
InvocationsIndependentWitness ==
    /\ DOMAIN frames = {1, 2}
    /\ frames[1].pc = "returned"
    /\ frames[2].pc = "returned"
    /\ frames[1].result.body.total_processed = 1
    /\ frames[2].result.body.failed_files = 1
    /\ \E n \in 2..(Len(calls) - 1) :
          /\ calls[n].inv = 2
          /\ calls[n - 1].inv = 1
          /\ calls[n + 1].inv = 1

\* C18: no reprocessing loop.  Every key a thumbnail is stored under starts
\* with "thumbnails/" and does not start with "images/", so that the
\* handler, given that key, skips it and stores nothing for it.
NoReprocessingLoop ==
    kt.pc = "derived" =>
        /\ HasPrefix(kt.thumbnail_key, ThumbnailsPrefix)
        /\ ~HasPrefix(kt.thumbnail_key, ImagesPrefix)
        /\ Route(kt.thumbnail_key) = "skip-wrong-prefix"
        /\ Route(unquote_plus(kt.thumbnail_key)) = "skip-wrong-prefix"

\* the thumbnail key of "images/thumbnails/" has been derived
NoReprocessingLoopWitness ==
    /\ kt.pc = "derived"
    /\ kt.source_key = ImagesPrefix \o ThumbnailsPrefix
    /\ kt.thumbnail_key = ThumbnailsPrefix \o ThumbnailsPrefix

SkipIsThumbnailUnreachable ==
    kt.pc \in { "routed", "derived" } =>
        /\ kt.route # "skip-is-thumbnail"
        /\ HasPrefix(kt.source_key, ThumbnailsPrefix) =>
               kt.route = "skip-wrong-prefix"
        /\ kt.route # "eligible" => kt.route = "skip-wrong-prefix"

\* a key that starts with "thumbnails/" and holds "images/" further on has
\* been routed
SkipIsThumbnailUnreachableWitness ==
    /\ kt.pc = "routed"
    /\ kt.source_key = ThumbnailsPrefix \o ImagesPrefix
    /\ kt.route = "skip-wrong-prefix"

====
